---- MODULE Spec2Model ----
(***************************************************************************)
(* Model of desktop/src/main.rs: the desktop side of the Tari Ledger demo. *)
(* main() is one straight-line run against the device: GetInfo (sent with  *)
(* Tari::send_chunks), Authenticate, Commit, Terminate.  The device and    *)
(* the transport are the environment: every reply is chosen by \E.         *)
(* Spec is that run; HashSpec is the hasher of lines 129-184 on its own,   *)
(* in the hands of any caller.                                             *)
(*                                                                         *)
(* Rust slices are 0-based and half-open, TLA+ sequences are 1-based and   *)
(* closed: data[a..b] is Slice(data, a, b) == SubSeq(data, a + 1, b).      *)
(***************************************************************************)
EXTENDS Integers, Sequences, FiniteSets, TLC

VARIABLES
    pc,             \* position of main(): which exchange it is blocked on, or how it ended
    sent,           \* every APDUCommand handed to the transport, in order
    inflight,       \* indices into sent of the exchanges not yet answered
    result,         \* `result`: data() of the latest answer (rebound at lines 45, 71, 108)
    name,           \* `name` (line 54), as its bytes
    package,        \* `package` (line 59), as its bytes
    challenge,      \* `challenge` (line 63), a scalar; NoScalar before line 63
    public_key,     \* `public_key` (line 74), a point; NoPoint before
    sig,            \* `sig` (line 77), a scalar
    nonce,          \* `nonce` (line 80), a point
    hasher,         \* the hasher of lines 85-88, as line 89 finalizes it
    e,              \* `e` (line 90), the digest as a scalar
    verified,       \* `result` of line 95: "none" before, then "true" / "false"
    commitment,     \* `commitment` (line 111), a point
    failure,        \* the error main() printed before returning early ("none" otherwise)
    panic,          \* why the process panicked ("none" otherwise)
    transportError, \* instruction code of the exchange the transport failed on (0: none)
    \* ConsensusHasher values in the hands of a caller other than main():
    \* per variable of the caller,
    bind,           \* "unbound", "owns" (holds a hasher), "moved" (chain took the
                    \* hasher out of it), "finalized" (finalize took it)
    obj,            \* the hasher it holds; once finalized, the hasher finalize took
    chained,        \* the values chained into that hasher so far, in order
    digest          \* what finalize returned for it (<<>> before)

mainVars == <<pc, sent, inflight, result, name, package, challenge, public_key, sig,
              nonce, hasher, e, verified, commitment, failure, panic, transportError>>

hashVars == <<bind, obj, chained, digest>>

vars == <<mainVars, hashVars>>

-----------------------------------------------------------------------------
(* Bounds of the model *)

\* Most bytes drawn from InfoBytes after the reserved byte of a GetInfo answer.
MaxInfoLen == 3

\* Order of the toy prime-order group standing for Ristretto: points and
\* scalars are 0 .. GroupOrder-1, the base point is 1, k*P is (k * P) % GroupOrder.
GroupOrder == 3

-----------------------------------------------------------------------------
(* Program constants *)

CLA == 0                \* impl App for Tari { const CLA: u8 = 0x0; }
ApduCla == 128          \* cla: 0x80
InsGetInfo == 1         \* ins: 0x01
InsAuthenticate == 2    \* ins: 0x02
InsCommit == 3          \* ins: 0x03
InsTerminate == 4       \* ins: 0x04
value == 60             \* let value: u64 = 60;
KeyLen == 32            \* [0u8; 32]: width of a key, a point, a scalar, a digest

\* ledger_zondax_generic::ChunkPayloadType, used by send_chunks
ChunkInit == 0
ChunkLast == 2
\* APDUErrorCode::NoError, the status word send_chunks accepts
SwNoError == 36864

\* Markers of a point / scalar variable that is not bound yet, or of a failed decode.
NoPoint == 0 - 1
NoScalar == 0 - 1

-----------------------------------------------------------------------------
(* Byte helpers *)

Slice(data, a, b) == SubSeq(data, a + 1, b)

Zeros(n) == [i \in 1 .. n |-> 0]

RECURSIVE BoundedSeq(_, _)
BoundedSeq(S, n) ==
    IF n = 0 THEN {<<>>}
    ELSE LET shorter == BoundedSeq(S, n - 1)
         IN  shorter \cup {Append(s, b) : s \in {t \in shorter : Len(t) = n - 1}, b \in S}

\* the n low bytes of v, least significant first
RECURSIVE LeBytes(_, _)
LeBytes(v, n) == IF n = 0 THEN <<>> ELSE <<v % 256>> \o LeBytes(v \div 256, n - 1)

\* most significant first
RECURSIVE BeBytes(_, _)
BeBytes(v, n) == IF n = 0 THEN <<>> ELSE BeBytes(v \div 256, n - 1) \o <<v % 256>>

\* u64::to_le_bytes (line 100): 8 bytes, least significant first
ToLeBytesMutant(v) == BeBytes(v, 8)
ToLeBytes(v) == LeBytes(v, 8)

\* u32 length prefix of borsh, little-endian
U32Le(n) == LeBytes(n, 4)

\* 256^k mod m, by repeated squaring
RECURSIVE Pow256Mod(_, _)
Pow256Mod(k, m) ==
    IF k = 0 THEN 1 % m
    ELSE LET half == Pow256Mod(k \div 2, m)
         IN  IF k % 2 = 0 THEN (half * half) % m
             ELSE (((half * half) % m) * (256 % m)) % m

\* The little-endian integer a byte string denotes, reduced mod m: the low
\* half plus 256^(its length) times the high half.
RECURSIVE LeMod(_, _)
LeMod(bytes, m) ==
    IF bytes = <<>> THEN 0
    ELSE IF Len(bytes) = 1 THEN bytes[1] % m
    ELSE LET k == Len(bytes) \div 2
         IN  (LeMod(SubSeq(bytes, 1, k), m)
              + Pow256Mod(k, m) * LeMod(SubSeq(bytes, k + 1, Len(bytes)), m)) % m

-----------------------------------------------------------------------------
(* std::str::from_utf8 (lines 54, 59): well-formed UTF-8, no overlong forms,
   no surrogates, nothing above U+10FFFF. *)

IsCont(s, i) == i <= Len(s) /\ s[i] >= 128 /\ s[i] <= 191

RECURSIVE Utf8From(_, _)
Utf8From(s, i) ==
    IF i > Len(s) THEN TRUE
    ELSE LET b == s[i] IN
         CASE b < 128 -> Utf8From(s, i + 1)
           [] b >= 194 /\ b <= 223 -> IsCont(s, i + 1) /\ Utf8From(s, i + 2)
           [] b = 224 -> IsCont(s, i + 1) /\ s[i + 1] >= 160 /\ IsCont(s, i + 2)
                         /\ Utf8From(s, i + 3)
           [] (b >= 225 /\ b <= 236) \/ b = 238 \/ b = 239 ->
                         IsCont(s, i + 1) /\ IsCont(s, i + 2) /\ Utf8From(s, i + 3)
           [] b = 237 -> IsCont(s, i + 1) /\ s[i + 1] <= 159 /\ IsCont(s, i + 2)
                         /\ Utf8From(s, i + 3)
           [] b = 240 -> IsCont(s, i + 1) /\ s[i + 1] >= 144 /\ IsCont(s, i + 2)
                         /\ IsCont(s, i + 3) /\ Utf8From(s, i + 4)
           [] b >= 241 /\ b <= 243 ->
                         IsCont(s, i + 1) /\ IsCont(s, i + 2) /\ IsCont(s, i + 3)
                         /\ Utf8From(s, i + 4)
           [] b = 244 -> IsCont(s, i + 1) /\ s[i + 1] <= 143 /\ IsCont(s, i + 2)
                         /\ IsCont(s, i + 3) /\ Utf8From(s, i + 4)
           [] OTHER -> FALSE

from_utf8_ok(s) == Utf8From(s, 1)

-----------------------------------------------------------------------------
(* tari_crypto over the toy group: keys, points, scalars (lines 63-95, 111) *)

Points == 0 .. GroupOrder - 1
Scalars == 0 .. GroupOrder - 1

\* ByteArray::as_bytes of a point / scalar: its canonical KeyLen-byte encoding
PointBytes(p) == <<p>> \o Zeros(KeyLen - 1)
ScalarBytes(s) == <<s>> \o Zeros(KeyLen - 1)

\* RistrettoPublicKey::from_bytes, PedersenCommitment::from_bytes: exactly
\* KeyLen bytes that are the canonical encoding of a point, else an error.
PointFromBytes(bytes) ==
    IF Len(bytes) = KeyLen /\ \E p \in Points : bytes = PointBytes(p)
    THEN bytes[1]
    ELSE NoPoint

\* RistrettoSecretKey::from_bytes: exactly KeyLen bytes, reduced mod the group
\* order (a non-reduced encoding is accepted), else an error.
ScalarFromBytes(bytes) ==
    IF Len(bytes) = KeyLen THEN LeMod(bytes, GroupOrder) ELSE NoScalar

\* RistrettoSchnorr::verify(public_key, e): s*G = R + e*P
Verify(P, ee, R, s) == (s * 1) % GroupOrder = (R + ee * P) % GroupOrder

-----------------------------------------------------------------------------
(* DomainSeparatedConsensusHasher / ConsensusHasher / WriteHashWrapper
   (lines 129-184).  A hasher is the label of its domain tag and the bytes
   written to the digest so far. *)

\* borsh of a RistrettoPublicKey: its bytes as a slice, u32 length first
BorshPoint(p) == U32Le(KeyLen) \o PointBytes(p)
\* borsh of a [u8; 32]: the bytes, no length
BorshArray(bytes) == bytes

\* hash_domain!(TransactionHashDomain, "com.tari.base_layer.core.transactions", 0)
\* (line 31): the domain, as its ASCII bytes, and the version as decimal digits
TransactionHashDomain ==
    <<99, 111, 109, 46, 116, 97, 114, 105, 46, 98, 97, 115, 101, 95, 108, 97,
      121, 101, 114, 46, 99, 111, 114, 101, 46, 116, 114, 97, 110, 115, 97,
      99, 116, 105, 111, 110, 115>>
TransactionHashDomainVersion == <<48>>

\* the label of line 85, "script_challenge", and another label, "other_challenge"
ScriptChallengeLabel ==
    <<115, 99, 114, 105, 112, 116, 95, 99, 104, 97, 108, 108, 101, 110, 103,
      101>>
OtherLabel ==
    <<111, 116, 104, 101, 114, 95, 99, 104, 97, 108, 108, 101, 110, 103,
      101>>

\* M::add_domain_separation_tag (line 135): what it feeds into the digest for
\* "<domain>.v<version>.<label>" (".v<version>" alone for an empty label): the
\* length of the tag as 8 little-endian bytes, then the tag.
DomainSeparationTag(label) ==
    LET tag == TransactionHashDomain \o <<46, 118>> \o TransactionHashDomainVersion
               \o (IF label = <<>> THEN <<>> ELSE <<46>> \o label)
    IN  LeBytes(Len(tag), 8) \o tag

\* DomainSeparatedConsensusHasher::new: a fresh Blake256 fed the tag.  A hasher
\* is its label, every byte fed into the digest so far, and whether every
\* write so far succeeded.
HasherNewMutant(label) ==
    [label |-> label, written |-> DomainSeparationTag(<<>>), ok |-> TRUE]
HasherNew(label) ==
    [label |-> label, written |-> DomainSeparationTag(label), ok |-> TRUE]

\* WriteHashWrapper::write: the whole buffer goes into the digest ...
Write(h, buf) == [h EXCEPT !.written = @ \o buf]

\* ... and its full length is reported as written
WriteCountMutant(buf) == IF Len(buf) > 1 THEN Len(buf) - 1 ELSE Len(buf)
WriteCount(buf) == Len(buf)

\* Write::write_all, as borsh calls it: write until the buffer is used up; a
\* write that reports 0 bytes is an error (which line 163 turns into a panic).
RECURSIVE WriteAll(_, _)
WriteAll(h, buf) ==
    IF buf = <<>> \/ ~h.ok THEN h
    ELSE IF WriteCount(buf) = 0 THEN [h EXCEPT !.ok = FALSE]
    ELSE WriteAll(Write(h, buf), SubSeq(buf, WriteCount(buf) + 1, Len(buf)))

update_consensus_encode(h, encoded) == WriteAll(h, encoded)

\* chain (lines 166-169): update_consensus_encode on self, which is returned
chain(h, encoded) == update_consensus_encode(h, encoded)

\* sum of i * bytes[i] for i in lo .. hi, mod 256
RECURSIVE WeightedSum(_, _, _)
WeightedSum(bytes, lo, hi) ==
    IF lo > hi THEN 0
    ELSE IF lo = hi THEN (lo * bytes[lo]) % 256
    ELSE LET mid == (lo + hi) \div 2
         IN  (WeightedSum(bytes, lo, mid) + WeightedSum(bytes, mid + 1, hi)) % 256

\* Blake256 of a byte string, as a toy checksum spread over KeyLen bytes
Blake256(bytes) == <<WeightedSum(bytes, 1, Len(bytes))>> \o Zeros(KeyLen - 1)

\* ConsensusHasher::finalize: the digest of everything written
finalize(h) == Blake256(h.written)

\* lines 85-88: the hasher that line 89 finalizes
ChallengeHasherMutant(pk, nc, challenge_bytes) ==
    chain(chain(chain(HasherNew(ScriptChallengeLabel),
        BorshPoint(nc)), BorshPoint(pk)), BorshArray(challenge_bytes))
ChallengeHasher(pk, nc, challenge_bytes) ==
    chain(chain(chain(HasherNew(ScriptChallengeLabel),
        BorshPoint(pk)), BorshPoint(nc)), BorshArray(challenge_bytes))


-----------------------------------------------------------------------------
(* The APDU commands main() builds *)

Apdu(cla, ins, p1, p2, data) ==
    [cla |-> cla, ins |-> ins, p1 |-> p1, p2 |-> p2, data |-> data]

\* lines 34-40
command == Apdu(ApduCla, InsGetInfo, 0, 0, <<0>>)

\* line 41
message == <<0>>

\* lines 64-70
command2Mutant(ch) == Apdu(CLA, InsAuthenticate, 0, 0, ScalarBytes(ch))
command2(ch) == Apdu(ApduCla, InsAuthenticate, 0, 0, ScalarBytes(ch))

\* lines 99-107
command3Mutant == Apdu(ApduCla, InsAuthenticate, 0, 0, ToLeBytes(value))
command3 == Apdu(ApduCla, InsCommit, 0, 0, ToLeBytes(value))

\* lines 115-121
command5 == Apdu(ApduCla, InsTerminate, 0, 0, <<0>>)

\* send_chunks: the frame that carries one chunk of the message; the message
\* of line 41 is a single chunk, so it is the last one.
ChunkCommand(cmd, chunk) == Apdu(cmd.cla, cmd.ins, ChunkLast, 0, chunk)

-----------------------------------------------------------------------------
(* Parsing of the answers *)

\* lines 52-53
InfoNameMutant(d) == Slice(d, 1, d[2] + 1)
InfoName(d) == Slice(d, 2, d[2] + 2)

\* lines 57-58
InfoPackage(d) ==
    LET data_len == d[2]
        package_len == d[data_len + 3]
    IN  Slice(d, data_len + 3, data_len + package_len + 3)

\* lines 52-59 in order: each index, slice and unwrap either passes or panics
ParseInfo(d) ==
    IF Len(d) < 2 THEN [status |-> "OutOfBounds", name |-> <<>>, package |-> <<>>]
    ELSE LET data_len == d[2] IN
    IF data_len + 2 > Len(d)
    THEN [status |-> "OutOfBounds", name |-> <<>>, package |-> <<>>]
    ELSE IF ~from_utf8_ok(InfoName(d))
    THEN [status |-> "InvalidUtf8", name |-> <<>>, package |-> <<>>]
    ELSE IF data_len + 2 >= Len(d)
    THEN [status |-> "OutOfBounds", name |-> InfoName(d), package |-> <<>>]
    ELSE IF data_len + d[data_len + 3] + 3 > Len(d)
    THEN [status |-> "OutOfBounds", name |-> InfoName(d), package |-> <<>>]
    ELSE IF ~from_utf8_ok(InfoPackage(d))
    THEN [status |-> "InvalidUtf8", name |-> InfoName(d), package |-> <<>>]
    ELSE [status |-> "ok", name |-> InfoName(d), package |-> InfoPackage(d)]

\* lines 73, 76, 79: the three fields of the Authenticate answer
AuthPublicKeyBytes(d) == Slice(d, 1, 33)
AuthSigBytes(d) == Slice(d, 33, 65)
AuthNonceBytesMutant(d) == Slice(d, 64, 96)
AuthNonceBytes(d) == Slice(d, 65, 97)

\* lines 73-80 in order
ParseAuth(d) ==
    LET none == [status |-> "OutOfBounds", public_key |-> NoPoint, sig |-> NoScalar,
                 nonce |-> NoPoint]
    IN
    IF Len(d) < 33 THEN none
    ELSE LET pk == PointFromBytes(AuthPublicKeyBytes(d)) IN
    IF pk = NoPoint THEN [none EXCEPT !.status = "InvalidEncoding"]
    ELSE IF Len(d) < 65 THEN [none EXCEPT !.public_key = pk]
    ELSE LET sg == ScalarFromBytes(AuthSigBytes(d)) IN
    IF sg = NoScalar THEN [none EXCEPT !.status = "InvalidEncoding", !.public_key = pk]
    ELSE IF Len(d) < 97 THEN [none EXCEPT !.public_key = pk, !.sig = sg]
    ELSE LET nc == PointFromBytes(AuthNonceBytes(d)) IN
    IF nc = NoPoint
    THEN [none EXCEPT !.status = "InvalidEncoding", !.public_key = pk, !.sig = sg]
    ELSE [status |-> "ok", public_key |-> pk, sig |-> sg, nonce |-> nc]

\* lines 110-111
ParseCommit(d) ==
    IF Len(d) < 33 THEN [status |-> "OutOfBounds", commitment |-> NoPoint]
    ELSE LET c == PointFromBytes(Slice(d, 1, 33)) IN
    IF c = NoPoint THEN [status |-> "InvalidEncoding", commitment |-> NoPoint]
    ELSE [status |-> "ok", commitment |-> c]

-----------------------------------------------------------------------------
(* What the transport and the device may answer *)

\* exchange() returned Err: the device is unreachable, or it answered fewer
\* than the two bytes of a status word.
ErrReply == [err |-> TRUE, sw |-> 0, data |-> <<>>]
OkReply(sw, d) == [err |-> FALSE, sw |-> sw, data |-> d]

StatusWords == {SwNoError, 27904}

InfoBytes == {0, 1, 65, 200}

\* the answer of the spec's example: name "Test", package "1.0"
CraftedInfo == <<0, 4, 84, 101, 115, 116, 3, 49, 46, 48>>
\* a two-byte UTF-8 name (U+0200) and a package "A", with another reserved
\* byte and a trailing byte
MultiByteInfo == <<1, 2, 200, 128, 1, 65, 0>>

\* line 45 answers: nothing at all, a reserved byte and up to MaxInfoLen bytes,
\* and the two answers above
InfoData ==
    {<<>>} \cup {<<0>> \o s : s \in BoundedSeq(InfoBytes, MaxInfoLen)}
    \cup {CraftedInfo, MultiByteInfo}

\* the values RistrettoSecretKey::random (line 63) may draw
Challenges == {1, 2}

\* point fields: every canonical encoding, and the first non-canonical one
PointFields == {PointBytes(p) : p \in Points} \cup {<<GroupOrder>> \o Zeros(KeyLen - 1)}
\* scalar fields: every reduced encoding, and a non-reduced one
ScalarFields == {ScalarBytes(s) : s \in Scalars} \cup {<<GroupOrder + 1>> \o Zeros(KeyLen - 1)}

\* line 71 answers: [reserved byte][public key][signature scalar][nonce point]
AuthFrame(r, pk, sg, nc) == <<r>> \o pk \o sg \o nc

\* the frames of exactly 97 bytes over all field values; one frame with another
\* reserved byte and a trailing byte; and one frame cut short at every field edge
AuthCuts == {0, 1, 32, 33, 64, 65, 96}
AuthData ==
    {AuthFrame(0, pk, sg, nc) : pk \in PointFields, sg \in ScalarFields, nc \in PointFields}
    \cup {AuthFrame(1, PointBytes(1), ScalarBytes(1), PointBytes(0)) \o <<0>>}
    \cup {Slice(AuthFrame(0, PointBytes(1), ScalarBytes(1), PointBytes(0)), 0, n) :
            n \in AuthCuts}

\* line 108 answers: [reserved byte][commitment point]
CommitCuts == {0, 1, 32}
CommitData ==
    {<<0>> \o c : c \in PointFields}
    \cup {<<1>> \o PointBytes(1) \o <<0>>}
    \cup {Slice(<<0>> \o PointBytes(1), 0, n) : n \in CommitCuts}

\* The status word matters to send_chunks only; exchange() hands any on.
InitReplies == {ErrReply} \cup {OkReply(sw, <<>>) : sw \in StatusWords}
InfoReplies ==
    {ErrReply, OkReply(27904, <<>>)} \cup {OkReply(SwNoError, d) : d \in InfoData}
AuthReplies ==
    {ErrReply, OkReply(27904, <<>>)} \cup {OkReply(SwNoError, d) : d \in AuthData}
CommitReplies ==
    {ErrReply, OkReply(27904, <<>>)} \cup {OkReply(SwNoError, d) : d \in CommitData}
TerminateReplies ==
    {ErrReply, OkReply(27904, <<>>), OkReply(SwNoError, <<>>), OkReply(SwNoError, <<0>>)}

-----------------------------------------------------------------------------
(* The run of main() *)

\* a hasher variable that is not bound yet
NoHasher == [label |-> <<>>, written |-> <<>>, ok |-> TRUE]

\* the caller's variables that may hold the hasher
Bindings == {"a", "b"}

Init ==
    /\ pc = "start"
    /\ sent = <<>>
    /\ inflight = {}
    /\ result = <<>>
    /\ name = <<>>
    /\ package = <<>>
    /\ challenge = NoScalar
    /\ public_key = NoPoint
    /\ sig = NoScalar
    /\ nonce = NoPoint
    /\ hasher = NoHasher
    /\ e = NoScalar
    /\ verified = "none"
    /\ commitment = NoPoint
    /\ failure = "none"
    /\ panic = "none"
    /\ transportError = 0
    /\ bind = [b \in Bindings |-> "unbound"]
    /\ obj = [b \in Bindings |-> NoHasher]
    /\ chained = [b \in Bindings |-> <<>>]
    /\ digest = [b \in Bindings |-> <<>>]

\* transport.exchange(&cmd) is entered: the command goes to the device, and the
\* exchange that was answered (if any) is over.
Exchange(cmd) ==
    /\ sent' = Append(sent, cmd)
    /\ inflight' = (inflight \ {Len(sent)}) \cup {Len(sent) + 1}

\* the pending exchange was answered and no command follows
Answered ==
    /\ sent' = sent
    /\ inflight' = inflight \ {Len(sent)}

\* an expect()/unwrap()/index/slice panics: the process aborts
Panic(why) ==
    /\ pc' = "panicked"
    /\ panic' = why
    /\ failure' = failure

\* main() prints the error and returns (lines 47-50)
ReturnError(kind) ==
    /\ pc' = "returned"
    /\ failure' = kind
    /\ panic' = panic

\* lines 22-26, 34-45: get the HID API and the device, then enter send_chunks,
\* which checks the message (one chunk) and p1 (Init) and sends `command` itself.
Start ==
    /\ pc = "start"
    /\ \E device \in BOOLEAN :
        IF ~device
        THEN /\ Panic("NoDevice")
             /\ UNCHANGED <<sent, inflight>>
        ELSE /\ Len(message) > 0
             /\ command.p1 = ChunkInit
             /\ Exchange(command)
             /\ pc' = "info_init"
             /\ UNCHANGED <<failure, panic>>
    /\ UNCHANGED <<result, name, package, challenge, public_key, sig, nonce, hasher,
                   e, verified, commitment, transportError>>
    /\ UNCHANGED hashVars

\* send_chunks (line 45), answer to `command`: a transport error or a status
\* word other than NoError makes send_chunks return Err; else the chunk goes out.
InfoInitReply ==
    /\ pc = "info_init"
    /\ \E reply \in InitReplies :
        IF reply.err
        THEN /\ Answered
             /\ ReturnError("TransportError")
             /\ transportError' = InsGetInfo
        ELSE IF reply.sw # SwNoError
        THEN /\ Answered
             /\ ReturnError("AppSpecific")
             /\ UNCHANGED transportError
        ELSE /\ Exchange(ChunkCommand(command, message))
             /\ pc' = "info_chunk"
             /\ UNCHANGED <<failure, panic, transportError>>
    /\ UNCHANGED <<result, name, package, challenge, public_key, sig, nonce, hasher,
                   e, verified, commitment>>
    /\ UNCHANGED hashVars

\* lines 45-71: the answer to the chunk is the result of send_chunks; main
\* parses name and package, draws the challenge and sends command2.
InfoChunkReply ==
    /\ pc = "info_chunk"
    /\ \E reply \in InfoReplies :
        IF reply.err
        THEN /\ Answered
             /\ ReturnError("TransportError")
             /\ transportError' = InsGetInfo
             /\ UNCHANGED <<result, name, package, challenge>>
        ELSE IF reply.sw # SwNoError
        THEN /\ Answered
             /\ ReturnError("AppSpecific")
             /\ UNCHANGED <<result, name, package, challenge, transportError>>
        ELSE \E parsed \in {ParseInfo(reply.data)} :
             /\ result' = reply.data
             /\ name' = parsed.name
             /\ package' = parsed.package
             /\ UNCHANGED transportError
             /\ IF parsed.status # "ok"
                THEN /\ Answered
                     /\ Panic(parsed.status)
                     /\ UNCHANGED challenge
                ELSE /\ \E ch \in Challenges :
                        /\ challenge' = ch
                        /\ Exchange(command2(ch))
                     /\ pc' = "auth"
                     /\ UNCHANGED <<failure, panic>>
    /\ UNCHANGED <<public_key, sig, nonce, hasher, e, verified, commitment>>
    /\ UNCHANGED hashVars

\* lines 71-108: the answer to command2 is unwrapped and parsed, the digest is
\* recomputed, the signature is verified and printed, and command3 is sent.
AuthReply ==
    /\ pc = "auth"
    /\ \E reply \in AuthReplies :
        IF reply.err
        THEN /\ Answered
             /\ Panic("TransportError")
             /\ transportError' = InsAuthenticate
             /\ UNCHANGED <<result, public_key, sig, nonce, hasher, e, verified>>
        ELSE \E parsed \in {ParseAuth(reply.data)} :
             /\ result' = reply.data
             /\ public_key' = parsed.public_key
             /\ sig' = parsed.sig
             /\ nonce' = parsed.nonce
             /\ UNCHANGED transportError
             /\ IF parsed.status # "ok"
                THEN /\ Answered
                     /\ Panic(parsed.status)
                     /\ UNCHANGED <<hasher, e, verified>>
                ELSE \E hs \in {ChallengeHasher(parsed.public_key, parsed.nonce,
                                                ScalarBytes(challenge))} :
                     /\ hasher' = hs
                     /\ IF ~hs.ok
                        THEN /\ Answered
                             /\ Panic("BorshWrite")
                             /\ UNCHANGED <<e, verified>>
                        ELSE \E scalar \in {ScalarFromBytes(finalize(hs))} :
                             /\ e' = scalar
                             /\ verified' =
                                  IF Verify(parsed.public_key, scalar, parsed.nonce,
                                            parsed.sig)
                                  THEN "true" ELSE "false"
                             /\ Exchange(command3)
                             /\ pc' = "commit"
                             /\ UNCHANGED <<failure, panic>>
    /\ UNCHANGED <<name, package, challenge, commitment>>
    /\ UNCHANGED hashVars

\* lines 108-122: the answer to command3 is unwrapped, the commitment is
\* decoded and printed, and command5 is sent.
CommitReply ==
    /\ pc = "commit"
    /\ \E reply \in CommitReplies :
        IF reply.err
        THEN /\ Answered
             /\ Panic("TransportError")
             /\ transportError' = InsCommit
             /\ UNCHANGED <<result, commitment>>
        ELSE \E parsed \in {ParseCommit(reply.data)} :
             /\ result' = reply.data
             /\ commitment' = parsed.commitment
             /\ UNCHANGED transportError
             /\ IF parsed.status # "ok"
                THEN /\ Answered
                     /\ Panic(parsed.status)
                ELSE /\ Exchange(command5)
                     /\ pc' = "term"
                     /\ UNCHANGED <<failure, panic>>
    /\ UNCHANGED <<name, package, challenge, public_key, sig, nonce, hasher, e,
                   verified>>
    /\ UNCHANGED hashVars

\* lines 122-125: how main() goes on after the answer to command5
TerminateOutcomeMutant(reply) == IF reply.err THEN "panicked" ELSE "returned"
TerminateOutcome(reply) == "returned"

\* lines 122-127: either arm prints, and main() returns
TerminateReply ==
    /\ pc = "term"
    /\ \E reply \in TerminateReplies :
        /\ Answered
        /\ pc' = TerminateOutcome(reply)
        /\ panic' = IF TerminateOutcome(reply) = "panicked" THEN "TransportError" ELSE panic
        /\ transportError' = IF reply.err THEN InsTerminate ELSE transportError
    /\ UNCHANGED <<result, name, package, challenge, public_key, sig, nonce, hasher,
                   e, verified, commitment, failure>>
    /\ UNCHANGED hashVars

Next ==
    \/ Start
    \/ InfoInitReply
    \/ InfoChunkReply
    \/ AuthReply
    \/ CommitReply
    \/ TerminateReply

Spec == Init /\ [][Next]_vars

-----------------------------------------------------------------------------
(* The hasher on its own (lines 129-170), driven by any caller: new, chain,
   update_consensus_encode, clone and finalize on the caller's variables.  The
   guards on bind are what the compiler enforces for `self`, `mut self` and
   `&mut self` receivers. *)

\* the longest sequence of values chained into one hasher
MaxChain == 2

\* the labels a caller passes to new()
Labels == {ScriptChallengeLabel, OtherLabel}

\* values a caller chains: a public key (as line 86), a [u8; 32] (as line 88)
\* and a [u8; 4]
Values ==
    { [type |-> "RistrettoPublicKey", point |-> 1, bytes |-> <<>>],
      [type |-> "u8array", point |-> NoPoint, bytes |-> PointBytes(1)],
      [type |-> "u8array", point |-> NoPoint, bytes |-> U32Le(KeyLen)] }

\* BorshSerialize::serialize(item, ..) (line 162) of such a value
Borsh(v) ==
    IF v.type = "RistrettoPublicKey" THEN BorshPoint(v.point) ELSE BorshArray(v.bytes)

\* a by-value receiver (`self` at line 157, `mut self` at line 166) takes the
\* hasher out of the caller's variable
TakeSelfMutant(held, how) == held
TakeSelf(held, how) == how

\* the variable holds a hasher the caller may use
Usable(b) == bind[b] = "owns" /\ obj[b].ok

\* let b = DomainSeparatedConsensusHasher::<TransactionHashDomain>::new(label)
HNew(b, label) ==
    /\ bind[b] = "unbound"
    /\ bind' = [bind EXCEPT ![b] = "owns"]
    /\ obj' = [obj EXCEPT ![b] = HasherNew(label)]
    /\ UNCHANGED <<chained, digest>>

\* let b2 = b.chain(&v)   (b2 = b: the variable is bound again)
HChain(b, b2, v) ==
    /\ Usable(b)
    /\ b2 = b \/ bind[b2] = "unbound"
    /\ Len(chained[b]) < MaxChain
    /\ bind' = [bind EXCEPT ![b] = TakeSelf(@, "moved"), ![b2] = "owns"]
    /\ obj' = [obj EXCEPT ![b] = NoHasher, ![b2] = chain(obj[b], Borsh(v))]
    /\ chained' = [chained EXCEPT ![b] = <<>>, ![b2] = Append(chained[b], v)]
    /\ UNCHANGED digest

\* b.update_consensus_encode(&v)
HUpdate(b, v) ==
    /\ Usable(b)
    /\ Len(chained[b]) < MaxChain
    /\ obj' = [obj EXCEPT ![b] = update_consensus_encode(@, Borsh(v))]
    /\ chained' = [chained EXCEPT ![b] = Append(@, v)]
    /\ UNCHANGED <<bind, digest>>

\* let b2 = b.clone()   (#[derive(Clone)], line 141)
HClone(b, b2) ==
    /\ Usable(b)
    /\ bind[b2] = "unbound"
    /\ bind' = [bind EXCEPT ![b2] = "owns"]
    /\ obj' = [obj EXCEPT ![b2] = obj[b]]
    /\ chained' = [chained EXCEPT ![b2] = chained[b]]
    /\ UNCHANGED digest

\* b.finalize()
HFinalize(b) ==
    /\ Usable(b)
    /\ bind' = [bind EXCEPT ![b] = TakeSelf(@, "finalized")]
    /\ digest' = [digest EXCEPT ![b] = finalize(obj[b])]
    /\ UNCHANGED <<obj, chained>>

New == \E b \in Bindings, label \in Labels : HNew(b, label) /\ UNCHANGED mainVars
Chain == \E b, b2 \in Bindings, v \in Values : HChain(b, b2, v) /\ UNCHANGED mainVars
UpdateConsensusEncode ==
    \E b \in Bindings, v \in Values : HUpdate(b, v) /\ UNCHANGED mainVars
Clone == \E b, b2 \in Bindings : HClone(b, b2) /\ UNCHANGED mainVars
Finalize == \E b \in Bindings : HFinalize(b) /\ UNCHANGED mainVars

HashNext ==
    \/ New
    \/ Chain
    \/ UpdateConsensusEncode
    \/ Clone
    \/ Finalize

HashSpec == Init /\ [][HashNext]_vars

-----------------------------------------------------------------------------
(* The orchestrator states of the design, read off the position of main() *)

OrchState ==
    CASE pc \in {"start", "info_init", "info_chunk"} -> "Idle"
      [] pc = "auth" -> "Connected"
      [] pc = "commit" -> "Authenticated"
      [] pc = "term" -> "Committed"
      [] pc = "returned" /\ failure = "none" -> "Terminated"
      [] pc = "returned" /\ failure # "none" -> "Failed"
      [] pc = "panicked" -> "Aborted"

InsCodes == [i \in 1 .. Len(sent) |-> sent[i].ins]

IsPrefix(s, t) == Len(s) <= Len(t) /\ s = SubSeq(t, 1, Len(s))

\* main() is blocked in an exchange
Waiting == pc \in {"info_init", "info_chunk", "auth", "commit", "term"}

\* the run stopped while handling the answer to the Authenticate command, or
\* went on from it and has no later answer yet: result is that answer
AuthAnswerSeen ==
    \/ pc = "commit"
    \/ /\ pc = "panicked"
       /\ Len(sent) = 3
       /\ transportError = 0

\* the run stopped while handling the answer to the GetInfo chunk, or went on
\* from it and has no later answer yet: result is that answer
InfoAnswerSeen ==
    \/ pc = "auth"
    \/ /\ pc = "panicked"
       /\ Len(sent) = 2

-----------------------------------------------------------------------------
(* Claims *)

\* C1 (as claimed): a verification that returned false ends the run in Failed
\* with VerificationFailed and no Commit command (0x03) is ever sent; the run
\* is past Connected only if the verification returned true.
C1_CommitOnlyIfVerified ==
    /\ verified = "false" =>
          /\ OrchState = "Failed"
          /\ failure = "VerificationFailed"
          /\ \A i \in 1 .. Len(sent) : sent[i].ins # InsCommit
    /\ OrchState \in {"Authenticated", "Committed", "Terminated"} => verified = "true"

\* C2 (as claimed): a transport error on the GetInfo, Authenticate or Commit
\* exchange ends the run in Failed with a typed communication error: no abort,
\* and the failed exchange is the last command of the run.
C2_TransportErrorIsTypedFailure ==
    transportError \in {InsGetInfo, InsAuthenticate, InsCommit} =>
        /\ OrchState = "Failed"
        /\ failure = "TransportError"
        /\ panic = "none"
        /\ sent[Len(sent)].ins = transportError
        /\ inflight = {}

\* C3 (as claimed): no answer of the device, whatever its bytes, makes the
\* process abort: the run never panics on an index, a slice, a text decoding
\* or a point decoding.
C3_NoAbortOnDeviceInput ==
    panic \notin {"OutOfBounds", "InvalidUtf8", "InvalidEncoding"}

\* C4 (as claimed): parsing never reads past the end of the answer: a GetInfo
\* answer whose declared lengths exceed the payload, an Authenticate answer
\* under 97 bytes and a Commit answer under 33 bytes end the run in Failed with
\* MalformedResponse, never in an out-of-bounds index or slice.
C4_ShortAnswerIsMalformedResponse ==
    /\ panic # "OutOfBounds"
    /\ (AuthAnswerSeen /\ Len(result) < 97) =>
          (OrchState = "Failed" /\ failure = "MalformedResponse")

\* a point field of an Authenticate answer that is present and not canonical
BadPointField(d) ==
    \/ Len(d) >= 33 /\ PointFromBytes(Slice(d, 1, 33)) = NoPoint
    \/ Len(d) >= 97 /\ PointFromBytes(Slice(d, 65, 97)) = NoPoint

\* C5 (as claimed): a public key or nonce that is not a canonical point
\* encoding ends the run in Failed with InvalidEncoding, and the verification
\* is never invoked on it.
C5_BadPointIsDecodeError ==
    (AuthAnswerSeen /\ BadPointField(result)) =>
        /\ OrchState = "Failed"
        /\ failure = "InvalidEncoding"
        /\ verified = "none"

\* C6 (as claimed): the instruction codes handed to the transport are a prefix
\* of 0x01, 0x02, 0x03, 0x04, each operation once, one exchange at a time.
C6_InsPrefixOfFour ==
    /\ IsPrefix(InsCodes, <<InsGetInfo, InsAuthenticate, InsCommit, InsTerminate>>)
    /\ Cardinality(inflight) <= 1

\* C6 (amended): the instruction codes handed to the transport are a prefix of
\* 0x01, 0x01, 0x02, 0x03, 0x04 (GetInfo goes out as two frames, the command and
\* the one chunk of its message; the other operations once each, in order,
\* never again), and at most one exchange is in flight: it is the last command
\* sent, and there is one exactly while main() is blocked in an exchange.
C6_InsPrefixWithChunk ==
    /\ IsPrefix(InsCodes,
                <<InsGetInfo, InsGetInfo, InsAuthenticate, InsCommit, InsTerminate>>)
    /\ Cardinality(inflight) <= 1
    /\ inflight \subseteq {Len(sent)}
    /\ Waiting <=> inflight # {}

C6_Witness ==
    /\ pc = "returned"
    /\ InsCodes = <<InsGetInfo, InsGetInfo, InsAuthenticate, InsCommit, InsTerminate>>
    /\ inflight = {}

\* C7: once the Terminate command was sent and answered, the run is in
\* Terminated, whether the answer was a reply (of any content) or a transport
\* error; it is never Failed, never aborted.
C7_TerminateAlwaysTerminates ==
    ((\E i \in 1 .. Len(sent) : sent[i].ins = InsTerminate) /\ inflight = {}) =>
        /\ OrchState = "Terminated"
        /\ failure = "none"
        /\ panic = "none"

C7_Witness ==
    /\ OrchState = "Terminated"
    /\ transportError = InsTerminate

\* [reserved][nameLength n][n bytes][packageLength m][m bytes], possibly followed
\* by more bytes
WellFormedInfo(d) ==
    /\ Len(d) >= 3
    /\ 2 + d[2] < Len(d)
    /\ d[2] + 3 + d[d[2] + 3] <= Len(d)

\* C8: of a well-formed GetInfo answer, name is the n bytes at offsets 2..2+n
\* and package the m bytes at offsets n+3..n+3+m; the answer
\* [0, 4, 'T','e','s','t', 3, '1','.','0'] gives "Test" and "1.0"; and a
\* well-formed answer fails to parse only on text that is not UTF-8.
C8_InfoFields ==
    /\ pc = "auth" =>
          /\ WellFormedInfo(result)
          /\ Len(name) = result[2]
          /\ \A i \in 1 .. Len(name) : name[i] = result[2 + i]
          /\ Len(package) = result[result[2] + 3]
          /\ \A i \in 1 .. Len(package) : package[i] = result[result[2] + 3 + i]
    /\ (InfoAnswerSeen /\ result = CraftedInfo) =>
          /\ pc = "auth"
          /\ name = <<84, 101, 115, 116>>
          /\ package = <<49, 46, 48>>
    /\ (InfoAnswerSeen /\ WellFormedInfo(result) /\ pc = "panicked") =>
          panic = "InvalidUtf8"

C8_Witness ==
    /\ pc = "auth"
    /\ result = CraftedInfo
    /\ name = <<84, 101, 115, 116>>
    /\ package = <<49, 46, 48>>

\* the request payloads of Authenticate, Commit and Terminate
LaterPayloadsAsTabled ==
    \A i \in 1 .. Len(sent) :
        /\ sent[i].ins = InsAuthenticate =>
              /\ Len(sent[i].data) = 32
              /\ ScalarFromBytes(sent[i].data) = challenge
        /\ sent[i].ins = InsCommit => sent[i].data = <<60, 0, 0, 0, 0, 0, 0, 0>>
        /\ sent[i].ins = InsTerminate => sent[i].data = <<0>>

\* C9 (as claimed): GetInfo carries no payload, Authenticate the 32-byte
\* challenge, Commit the value as 8 little-endian bytes, Terminate one zero byte.
C9_PayloadsAsTabled ==
    /\ \A i \in 1 .. Len(sent) : sent[i].ins = InsGetInfo => sent[i].data = <<>>
    /\ LaterPayloadsAsTabled

\* C9 (amended): every GetInfo frame carries a single zero byte; Authenticate
\* carries the 32-byte challenge, Commit the value 60 as 8 little-endian bytes,
\* Terminate one zero byte.
C9_PayloadsAsSent ==
    /\ \A i \in 1 .. Len(sent) : sent[i].ins = InsGetInfo => sent[i].data = <<0>>
    /\ LaterPayloadsAsTabled

C9_Witness ==
    /\ pc = "term"
    /\ Len(sent) = 5
    /\ sent[4].data = <<60, 0, 0, 0, 0, 0, 0, 0>>

\* C10: every command handed to the transport has instruction class 0x80; the
\* class 0x0 of the App trait is never the class of a command.
C10_ClassIs0x80 ==
    \A i \in 1 .. Len(sent) : sent[i].cla = 128 /\ sent[i].cla # CLA

C10_Witness ==
    /\ pc = "returned"
    /\ Len(sent) = 5
    /\ \A i \in 1 .. 5 : sent[i].cla = 128


\* the run handled the answer to the Authenticate command up to the
\* verification of line 95
Verification == verified # "none"

\* C11: once the signature was verified, the hasher that gave the digest was
\* made with the label "script_challenge" and fed, after its domain tag, the
\* encodings of exactly the parsed public key, the parsed nonce and the 32
\* bytes sent as the payload of this run's Authenticate command, in this
\* order; e is that digest as a scalar, and the verification answered whether
\* the parsed signature satisfies the Schnorr relation for that public key and
\* that e.
C11_DigestOfKeyNonceChallenge ==
    Verification =>
        /\ Len(sent) >= 3
        /\ sent[3].ins = InsAuthenticate
        /\ Len(sent[3].data) = KeyLen
        /\ hasher.ok
        /\ hasher.label = ScriptChallengeLabel
        /\ hasher.written =
               DomainSeparationTag(ScriptChallengeLabel)
               \o U32Le(KeyLen) \o PointBytes(public_key)
               \o U32Le(KeyLen) \o PointBytes(nonce)
               \o sent[3].data
        /\ e = ScalarFromBytes(Blake256(hasher.written))
        /\ (verified = "true") = Verify(public_key, e, nonce, sig)

C11_Witness ==
    /\ pc = "commit"
    /\ verified = "true"
    /\ public_key # nonce
    /\ public_key # 0

\* the run stopped while handling the answer to the Commit command, or went on
\* from it: result is that answer
CommitAnswerSeen ==
    \/ Len(sent) = 5
    \/ /\ pc = "panicked"
       /\ Len(sent) = 4
       /\ transportError = 0

\* C15 (as claimed): decoding the commitment undoes the canonical encoding: a
\* decoded commitment, encoded again, is the 32 bytes it was decoded from; an
\* answer that has not 32 bytes for the commitment, or has bytes that are not
\* a canonical encoding, gives no commitment value and ends the run in Failed
\* with MalformedResponse or InvalidEncoding.
C15_CommitmentDecodeOrError ==
    CommitAnswerSeen =>
        IF Len(result) >= 33 /\ PointFromBytes(Slice(result, 1, 33)) # NoPoint
        THEN /\ commitment # NoPoint
             /\ PointBytes(commitment) = Slice(result, 1, 33)
        ELSE /\ commitment = NoPoint
             /\ OrchState = "Failed"
             /\ failure \in {"MalformedResponse", "InvalidEncoding"}

\* C16: of an Authenticate answer of at least 97 bytes, whatever its first
\* byte, the public key is decoded from bytes 1..33, the signature scalar from
\* bytes 33..65 and the nonce from bytes 65..97 (each field as far as the
\* fields before it decoded); when all three decode the run goes on to verify
\* the signature made of exactly this nonce and scalar against this key; of a
\* Commit answer of at least 33 bytes the commitment is decoded from bytes
\* 1..33.
C16_AnswerFieldOffsets ==
    /\ (AuthAnswerSeen /\ Len(result) >= 97) =>
          /\ public_key = PointFromBytes(SubSeq(result, 2, 33))
          /\ public_key # NoPoint =>
                /\ sig = ScalarFromBytes(SubSeq(result, 34, 65))
                /\ nonce = PointFromBytes(SubSeq(result, 66, 97))
          /\ (public_key # NoPoint /\ nonce # NoPoint) =>
                /\ pc = "commit"
                /\ (verified = "true") = Verify(public_key, e, nonce, sig)
    /\ (CommitAnswerSeen /\ Len(result) >= 33) =>
          commitment = PointFromBytes(SubSeq(result, 2, 33))

C16_Witness ==
    /\ pc = "commit"
    /\ Len(result) > 97
    /\ result[1] # 0
    /\ nonce # public_key

\* main() is over: it returned, or the process aborted
Stopped == pc \in {"returned", "panicked"}

\* every exchange is answered in the end, and main() goes on from the answer
FairSpec == Spec /\ WF_vars(Next)

\* every run stops
EventuallyStops == <>Stopped

\* C18 (as claimed): a run that is over is in Terminated or Failed, and no run
\* hands the transport more than the four operations, each once and in order.
C18_StopsTerminatedOrFailed ==
    /\ Stopped => OrchState \in {"Terminated", "Failed"}
    /\ IsPrefix(InsCodes, <<InsGetInfo, InsGetInfo, InsAuthenticate, InsCommit,
                            InsTerminate>>)
    /\ Cardinality({sent[i].ins : i \in 1 .. Len(sent)}) <= 4

-----------------------------------------------------------------------------
(* Claims about the hasher on its own, under HashSpec *)

\* the variable holds a hasher, or held the one finalize took
Holds(b) == bind[b] \in {"owns", "finalized"}

\* the encodings of a sequence of values, one after the other
RECURSIVE Encodings(_)
Encodings(vs) == IF vs = <<>> THEN <<>> ELSE Borsh(Head(vs)) \o Encodings(Tail(vs))

\* C12: two hashers made with the same label and chained with the same
\* sequence of values have been fed the same bytes and finalize to the same
\* digest; two hashers chained with the same sequence of values whose labels
\* differ have been fed different bytes (which a collision-free hash turns
\* into different digests).
C12_DeterministicAndLabelSeparated ==
    \A b1, b2 \in Bindings :
        (Holds(b1) /\ Holds(b2) /\ chained[b1] = chained[b2]) =>
            IF obj[b1].label = obj[b2].label
            THEN /\ obj[b1].written = obj[b2].written
                 /\ (bind[b1] = "finalized" /\ bind[b2] = "finalized")
                        => digest[b1] = digest[b2]
            ELSE obj[b1].written # obj[b2].written

C12_Witness ==
    /\ bind["a"] = "finalized"
    /\ bind["b"] = "finalized"
    /\ chained["a"] = chained["b"]
    /\ Len(chained["a"]) = MaxChain
    /\ obj["a"].label # obj["b"].label

\* C13 (as claimed): the bytes chain feeds into the hash are an unambiguous
\* encoding of the chained values: two hashers made with the same label and
\* chained with two distinct sequences of values, of the same or of different
\* lengths, of fixed-size and variable-size values, have been fed different
\* bytes.
C13_EncodingUnambiguous ==
    \A b1, b2 \in Bindings :
        (Holds(b1) /\ Holds(b2) /\ obj[b1].label = obj[b2].label
         /\ chained[b1] # chained[b2]) =>
            obj[b1].written # obj[b2].written

\* C17: finalize is terminal and chain hands the hasher on: a variable whose
\* hasher finalize or chain took never changes again (no chain,
\* update_consensus_encode or second finalize applies to it); a digest comes
\* only with the variable given up as finalized; and when chain binds its
\* result to another variable, the variable it was called on is left moved
\* out of, not usable next to its successor.
C17_FinalizeIsTerminal ==
    [][\A b \in Bindings :
          /\ bind[b] \in {"moved", "finalized"} =>
                /\ bind'[b] = bind[b]
                /\ obj'[b] = obj[b]
                /\ chained'[b] = chained[b]
                /\ digest'[b] = digest[b]
          /\ digest'[b] # digest[b] => bind'[b] = "finalized"
          /\ \A b2 \in Bindings \ {b} :
                (/\ bind[b] = "owns"
                 /\ bind[b2] = "unbound"
                 /\ bind'[b2] = "owns"
                 /\ Len(chained'[b2]) = Len(chained[b]) + 1) =>
                    bind'[b] = "moved"
      ]_vars

C17_Witness ==
    /\ bind["a"] = "moved"
    /\ bind["b"] = "finalized"
    /\ Len(chained["b"]) = MaxChain
    /\ digest["b"] # <<>>

\* C19: a hasher has been fed the domain tag of its label followed by the
\* encodings of the values chained into it, in the order they were chained,
\* each byte once (every write takes the whole buffer and reports all of it
\* written, so no write fails or is repeated); the digest finalize returned is
\* the hash of exactly these bytes; and a hasher the values went into through
\* chain is the same as one they went into through update_consensus_encode.
C19_DigestOfTagAndEncodings ==
    \A b \in Bindings :
        Holds(b) =>
            /\ obj[b].ok
            /\ obj[b].written =
                   DomainSeparationTag(obj[b].label) \o Encodings(chained[b])
            /\ bind[b] = "finalized" =>
                   digest[b] = Blake256(DomainSeparationTag(obj[b].label)
                                        \o Encodings(chained[b]))
            /\ \A b2 \in Bindings :
                   (Holds(b2) /\ obj[b2].label = obj[b].label
                    /\ chained[b2] = chained[b]) => obj[b2] = obj[b]

C19_Witness ==
    /\ bind["a"] = "finalized"
    /\ bind["b"] = "owns"
    /\ Len(chained["a"]) = MaxChain
    /\ chained["a"][1] # chained["a"][2]
    /\ chained["b"] = chained["a"]
    /\ obj["b"].label = obj["a"].label

====
